---- MODULE Spec2Model ----
(***************************************************************************)
(* rchess: chess position representation and pseudo-legal move generation. *)
(* Model of src/src/pieces.rs (Square, Color, the piece variants) and      *)
(* src/src/board.rs (Board: the index built from a GameState snapshot and  *)
(* the move generators that query it).                                     *)
(*                                                                         *)
(* Option<T> is modelled as a sequence of length at most one: None is <<>> *)
(* and Some(x) is <<x>>.  A Vec is a sequence; a HashMap is a function     *)
(* whose domain is the set of keys.                                        *)
(***************************************************************************)
EXTENDS Integers, Sequences, FiniteSets, TLC

VARIABLES
    inner,            \* Board.inner: the GameState snapshot the board wraps
    square_to_piece,  \* Board.square_to_piece: HashMap<Square, Piece>
    white_pieces,     \* Board.white_pieces: Vec<Piece>
    black_pieces,     \* Board.black_pieces: Vec<Piece>
    call,             \* the operation invoked last, with its arguments
    ret,              \* the value that operation returned
    pc,               \* position inside a running sliding_piece_moves call
    ray               \* locals of the running sliding_piece_moves call

\* The fields of the records of the model, with the source type each belongs
\* to.  Every record of the module lists its fields in this order.
Fields ==
    [op |-> "the operation called",
     tag |-> "proto::piece::Kind, PieceType",
     color |-> "proto::King ... proto::Pawn, Rook",
     position |-> "proto::King ... proto::Pawn, Rook",
     has_moved |-> "proto::King, proto::Pawn, Rook",
     kind |-> "proto::Piece",
     captured |-> "proto::Piece",
     file |-> "Square, proto::Position",
     rank |-> "Square, proto::Position",
     index |-> "proto::Position",
     algebraic |-> "proto::Position",
     push |-> "sliding_piece_moves: moves.push(target)",
     brk |-> "sliding_piece_moves: break",
     piece |-> "argument",
     square |-> "argument",
     from |-> "argument, local of sliding_piece_moves",
     pos |-> "argument",
     sq |-> "argument",
     directions |-> "argument, local of sliding_piece_moves",
     di |-> "local of sliding_piece_moves",
     moves |-> "local of sliding_piece_moves",
     iter |-> "local of sliding_piece_moves",
     board |-> "proto::GameState",
     pieces |-> "proto::Board",
     target |-> "argument"]

vars == <<inner, square_to_piece, white_pieces, black_pieces, call, ret, pc, ray>>

boardVars == <<inner, square_to_piece, white_pieces, black_pieces>>

-----------------------------------------------------------------------------
(* Option<T> *)

None == <<>>

Some(x) == <<x>>

IsSome(o) == o # <<>>

Unwrap(o) == o[1]

-----------------------------------------------------------------------------
(* Bounds of the model *)

\* longest piece list of a snapshot
MaxPieces == 2

\* external coordinates handed to the conversions range over -ExtLow..ExtHigh
\* and over the values that wrap to these when cut to eight bits
ExtLow == 2

ExtHigh == 10

\* longest direction list handed to the public sliding_piece_moves
MaxDirs == 2

\* iterations of one ray after which the model stops following the loop
MaxIter == 9

-----------------------------------------------------------------------------
(* Integer widths *)

U8Modulus == 256

\* `x as u8`: truncation of an i32 (or of an i32 sum) to eight bits
AsU8(x) == x % U8Modulus

\* u8::saturating_sub
SaturatingSub(x, y) == IF x < y THEN 0 ELSE x - y

Abs(x) == IF x < 0 THEN -x ELSE x

-----------------------------------------------------------------------------
(* Square  (pieces.rs) *)

\* the largest file and rank index of the board
MaxCoord == 7

Coords == 0..MaxCoord

Squares == [file : Coords, rank : Coords]

Sq(f, r) == [file |-> f, rank |-> r]

\* Square::new(file: u8, rank: u8) -> Option<Square>
Square_new(file, rank) ==
    IF file <= MaxCoord /\ rank <= MaxCoord THEN Some(Sq(file, rank)) ELSE None

Square_from_proto_NoSaturate(pos) ==
    Square_new(AsU8(AsU8(pos.file) - 1), AsU8(AsU8(pos.rank) - 1))

\* Square::from_proto(pos: &proto::Position) -> Option<Square>
Square_from_proto(pos) ==
    LET file == SaturatingSub(AsU8(pos.file), 1)
        rank == SaturatingSub(AsU8(pos.rank), 1)
    IN  Square_new(file, rank)

\* the characters format!("{}", c as char) and format!("{}", n) can produce here
AsciiChar(c) ==
    CASE c = 48 -> "0" [] c = 49 -> "1" [] c = 50 -> "2" [] c = 51 -> "3"
      [] c = 52 -> "4" [] c = 53 -> "5" [] c = 54 -> "6" [] c = 55 -> "7"
      [] c = 56 -> "8" [] c = 57 -> "9"
      [] c = 97 -> "a" [] c = 98 -> "b" [] c = 99 -> "c" [] c = 100 -> "d"
      [] c = 101 -> "e" [] c = 102 -> "f" [] c = 103 -> "g" [] c = 104 -> "h"
      [] c = 105 -> "i"
      [] OTHER -> "?"

RECURSIVE Decimal(_)
\* Display of an unsigned integer: its decimal digits, most significant first
Decimal(n) ==
    IF n < 10 THEN <<AsciiChar(48 + n)>>
    ELSE Decimal(n \div 10) \o <<AsciiChar(48 + (n % 10))>>

Square_to_algebraic_ZeroBased(sq) ==
    <<AsciiChar(AsU8(97 + sq.file))>> \o Decimal(sq.rank)

\* Square::to_algebraic(&self) -> String, a sequence of characters
Square_to_algebraic(sq) ==
    <<AsciiChar(AsU8(97 + sq.file))>> \o Decimal(AsU8(sq.rank + 1))

\* Square::to_proto(&self) -> proto::Position
Square_to_proto(sq) ==
    [file      |-> AsU8(sq.file + 1),
     rank      |-> AsU8(sq.rank + 1),
     index     |-> AsU8(AsU8(sq.rank * 8) + sq.file),
     algebraic |-> Square_to_algebraic(sq)]

-----------------------------------------------------------------------------
(* Color  (pieces.rs) *)

Colors == {"White", "Black"}

\* Color::opposite
opposite(c) == IF c = "White" THEN "Black" ELSE "White"

\* Color::from_proto(proto_color: i32)
Color_from_proto(proto_color) ==
    CASE proto_color = 1 -> "White"
      [] proto_color = 2 -> "Black"
      [] OTHER -> "White"

\* Color::to_proto
Color_to_proto(c) == IF c = "White" THEN 1 ELSE 2

-----------------------------------------------------------------------------
(* The snapshot: proto::Position, proto::Piece, proto::GameState *)

\* a proto::Position as an external producer fills it: file and rank only
Position(file, rank) ==
    [file |-> file, rank |-> rank, index |-> 0, algebraic |-> <<>>]

\* proto::piece::Kind: the oneof of King, Queen, Knight, Bishop, Pawn, each
\* with a colour code and an optional position
Kind(tag, color, position) ==
    [tag |-> tag, color |-> color, position |-> position]

\* proto::Piece
ProtoPiece(kind, captured) == [kind |-> kind, captured |-> captured]

\* proto::GameState
GameState(pieces) ==
    [board                    |-> Some([pieces |-> pieces]),
     current_player           |-> 1,
     white_kingside_castling  |-> FALSE,
     white_queenside_castling |-> FALSE,
     black_kingside_castling  |-> FALSE,
     black_queenside_castling |-> FALSE,
     en_passant_target        |-> None,
     halfmove_clock           |-> 0,
     fullmove_number          |-> 0]

-----------------------------------------------------------------------------
(* Board: the index  (board.rs) *)

EmptyMap == [s \in {} |-> s]

\* HashMap::insert: a later value replaces the one stored under the same key
Insert(m, k, v) == [x \in (DOMAIN m) \cup {k} |-> IF x = k THEN v ELSE m[x]]

\* Board::piece_color(&self, piece) -> Option<Color>; the five arms of the
\* match read the colour code of their variant in the same way
piece_color(piece) ==
    IF IsSome(piece.kind)
    THEN Some(Color_from_proto(Unwrap(piece.kind).color))
    ELSE None

\* Option::and_then(Square::from_proto) on an optional position
ResolvePosition(position) ==
    IF IsSome(position) THEN Square_from_proto(Unwrap(position)) ELSE None

\* Board::piece_square(&self, piece) -> Option<Square>
piece_square(piece) ==
    IF IsSome(piece.kind)
    THEN ResolvePosition(Unwrap(piece.kind).position)
    ELSE None

EmptyIndex ==
    [square_to_piece |-> EmptyMap, white_pieces |-> <<>>, black_pieces |-> <<>>]

IndexPiece_KeepCaptured(idx, piece) ==
    LET square == piece_square(piece)
        color  == piece_color(piece)
    IN  [square_to_piece |->
            IF IsSome(square)
            THEN Insert(idx.square_to_piece, Unwrap(square), piece)
            ELSE idx.square_to_piece,
         white_pieces |->
            IF IsSome(color) /\ Unwrap(color) = "White"
            THEN Append(idx.white_pieces, piece) ELSE idx.white_pieces,
         black_pieces |->
            IF IsSome(color) /\ Unwrap(color) = "Black"
            THEN Append(idx.black_pieces, piece) ELSE idx.black_pieces]

\* the body of the loop of Board::rebuild_indices for one piece
IndexPiece(idx, piece) ==
    IF piece.captured THEN idx
    ELSE
    LET square == piece_square(piece)
        color  == piece_color(piece)
    IN  [square_to_piece |->
            IF IsSome(square)
            THEN Insert(idx.square_to_piece, Unwrap(square), piece)
            ELSE idx.square_to_piece,
         white_pieces |->
            IF IsSome(color) /\ Unwrap(color) = "White"
            THEN Append(idx.white_pieces, piece) ELSE idx.white_pieces,
         black_pieces |->
            IF IsSome(color) /\ Unwrap(color) = "Black"
            THEN Append(idx.black_pieces, piece) ELSE idx.black_pieces]

RECURSIVE IndexFrom(_, _, _)
\* for piece in &board.pieces, from the i-th piece on
IndexFrom(pieces, i, idx) ==
    IF i > Len(pieces) THEN idx
    ELSE IndexFrom(pieces, i + 1, IndexPiece(idx, pieces[i]))

\* Board::rebuild_indices(&mut self): the three cleared structures refilled
\* from the snapshot gs
rebuild_indices(gs) ==
    IF IsSome(gs.board)
    THEN IndexFrom(Unwrap(gs.board).pieces, 1, EmptyIndex)
    ELSE EmptyIndex

\* Board::piece_at(&self, square) -> Option<&Piece>
piece_at(square) ==
    IF square \in DOMAIN square_to_piece
    THEN Some(square_to_piece[square])
    ELSE None

is_empty_or_capturable_SameColor(square, color) ==
    IF IsSome(piece_at(square))
    THEN piece_color(Unwrap(piece_at(square))) = Some(color)
    ELSE TRUE

\* Board::is_empty_or_capturable(&self, square, color) -> bool
is_empty_or_capturable(square, color) ==
    IF IsSome(piece_at(square))
    THEN piece_color(Unwrap(piece_at(square))) # Some(color)
    ELSE TRUE

\* Board::pieces_of_color(&self, color) -> &[Piece]
pieces_of_color(color) ==
    IF color = "White" THEN white_pieces ELSE black_pieces

\* Board::all_pieces(&self): the values of the map; distinct keys hold
\* distinct pieces, so the values form a set
all_pieces == {square_to_piece[s] : s \in DOMAIN square_to_piece}

to_proto_LiveOnly ==
    IF IsSome(inner.board)
    THEN [inner EXCEPT !.board =
            Some([pieces |-> SelectSeq(Unwrap(inner.board).pieces,
                                       LAMBDA p : ~p.captured)])]
    ELSE inner

\* Board::to_proto(&self) -> proto::GameState: a clone of the wrapped snapshot
to_proto == inner

\* Board::current_player(&self) -> Color
current_player == Color_from_proto(inner.current_player)

\* Board::white_kingside_castling(&self) -> bool
white_kingside_castling == inner.white_kingside_castling

\* Board::white_queenside_castling(&self) -> bool
white_queenside_castling == inner.white_queenside_castling

\* Board::black_kingside_castling(&self) -> bool
black_kingside_castling == inner.black_kingside_castling

\* Board::black_queenside_castling(&self) -> bool
black_queenside_castling == inner.black_queenside_castling

\* Board::en_passant_target(&self) -> Option<Square>
en_passant_target == ResolvePosition(inner.en_passant_target)

\* Board::halfmove_clock(&self) -> i32
halfmove_clock == inner.halfmove_clock

\* Board::fullmove_number(&self) -> i32
fullmove_number == inner.fullmove_number

-----------------------------------------------------------------------------
(* Board: move generation  (board.rs) *)

\* one pass through the body of `loop` in sliding_piece_moves, entered with
\* the locals file and rank: the locals after it, the square it pushed (if
\* any) and whether it left the loop
SlideStep_PassCapture(color, file, rank, df, dr) ==
    LET f == file + df
        r == rank + dr
    IN  IF f < 0 \/ f > MaxCoord \/ r < 0 \/ r > MaxCoord
        THEN [file |-> f, rank |-> r, push |-> None, brk |-> TRUE]
        ELSE LET target == Square_new(AsU8(f), AsU8(r))
             IN  IF ~IsSome(target)
                 THEN [file |-> f, rank |-> r, push |-> None, brk |-> FALSE]
                 ELSE IF is_empty_or_capturable(Unwrap(target), color)
                 THEN [file |-> f, rank |-> r, push |-> target, brk |-> FALSE]
                 ELSE [file |-> f, rank |-> r, push |-> None, brk |-> TRUE]

SlideStep(color, file, rank, df, dr) ==
    LET f == file + df
        r == rank + dr
    IN  IF f < 0 \/ f > MaxCoord \/ r < 0 \/ r > MaxCoord
        THEN [file |-> f, rank |-> r, push |-> None, brk |-> TRUE]
        ELSE LET target == Square_new(AsU8(f), AsU8(r))
             IN  IF ~IsSome(target)
                 THEN [file |-> f, rank |-> r, push |-> None, brk |-> FALSE]
                 ELSE IF is_empty_or_capturable(Unwrap(target), color)
                 THEN [file |-> f, rank |-> r, push |-> target,
                       brk  |-> /\ IsSome(piece_at(Unwrap(target)))
                                /\ piece_color(Unwrap(piece_at(Unwrap(target))))
                                       # Some(color)]
                 ELSE [file |-> f, rank |-> r, push |-> None, brk |-> TRUE]

RECURSIVE RayFrom(_, _, _, _, _)
\* the squares `loop` pushes for one direction, entered with file and rank
RayFrom(color, file, rank, df, dr) ==
    LET s == SlideStep(color, file, rank, df, dr)
    IN  IF s.brk THEN s.push
        ELSE s.push \o RayFrom(color, s.file, s.rank, df, dr)

RECURSIVE SlideDirs(_, _, _, _)
\* for &(df, dr) in directions, from the i-th direction on
SlideDirs(from, color, directions, i) ==
    IF i > Len(directions) THEN <<>>
    ELSE RayFrom(color, from.file, from.rank, directions[i][1], directions[i][2])
         \o SlideDirs(from, color, directions, i + 1)

\* Board::sliding_piece_moves(&self, from, color, directions) -> Vec<Square>
sliding_piece_moves(from, color, directions) ==
    SlideDirs(from, color, directions, 1)

PawnCapture_AnyColour(from, color, direction, df) ==
    LET target == Square_new(AsU8(from.file + df), AsU8(from.rank + direction))
    IN  IF IsSome(target) /\ IsSome(piece_at(Unwrap(target)))
        THEN target
        ELSE <<>>

\* the `Capture moves` loop of pawn_moves for one file offset df
PawnCapture(from, color, direction, df) ==
    LET target == Square_new(AsU8(from.file + df), AsU8(from.rank + direction))
    IN  IF /\ IsSome(target)
           /\ IsSome(piece_at(Unwrap(target)))
           /\ piece_color(Unwrap(piece_at(Unwrap(target)))) = Some(opposite(color))
        THEN target
        ELSE <<>>

pawn_moves_JumpOver(from, color, has_moved) ==
    LET direction == IF color = "White" THEN 1 ELSE -1
        target    == Square_new(from.file, AsU8(from.rank + direction))
        two_sq    == Square_new(from.file, AsU8(from.rank + 2 * direction))
        one       == IF IsSome(target) /\ ~IsSome(piece_at(Unwrap(target)))
                     THEN target ELSE <<>>
        two       == IF /\ ~has_moved
                        /\ IsSome(two_sq)
                        /\ ~IsSome(piece_at(Unwrap(two_sq)))
                     THEN two_sq ELSE <<>>
    IN  one \o two \o PawnCapture(from, color, direction, -1)
            \o PawnCapture(from, color, direction, 1)

\* Board::pawn_moves(&self, from, color, has_moved) -> Vec<Square>
pawn_moves(from, color, has_moved) ==
    LET direction == IF color = "White" THEN 1 ELSE -1
        target    == Square_new(from.file, AsU8(from.rank + direction))
        two_sq    == Square_new(from.file, AsU8(from.rank + 2 * direction))
        forward   ==
            IF IsSome(target) /\ ~IsSome(piece_at(Unwrap(target)))
            THEN target \o
                 (IF /\ ~has_moved
                     /\ IsSome(two_sq)
                     /\ ~IsSome(piece_at(Unwrap(two_sq)))
                  THEN two_sq ELSE <<>>)
            ELSE <<>>
    IN  forward \o PawnCapture(from, color, direction, -1)
                \o PawnCapture(from, color, direction, 1)

-----------------------------------------------------------------------------
(* The piece variants  (pieces.rs) *)

\* King::new, Queen::new, Bishop::new, Knight::new, Pawn::new: the wrapped
\* proto message; has_moved is read by King and Pawn only
Piece_new(tag, color, position) ==
    [tag       |-> tag,
     color     |-> Color_to_proto(color),
     position  |-> Some(Square_to_proto(position)),
     has_moved |-> FALSE]

\* Rook::new: the rook keeps a Color and a Square of its own
Rook_new(color, position) ==
    [tag |-> "Rook", color |-> color, position |-> position, has_moved |-> FALSE]

\* Pawn::mark_moved, King::mark_moved, Rook::mark_moved
mark_moved(piece) == [piece EXCEPT !.has_moved = TRUE]

\* Piece::color
color_of(piece) ==
    IF piece.tag = "Rook" THEN piece.color ELSE Color_from_proto(piece.color)

position_of_OtherCorner(piece) ==
    IF piece.tag = "Rook" THEN piece.position
    ELSE IF IsSome(ResolvePosition(piece.position))
         THEN Unwrap(ResolvePosition(piece.position))
         ELSE Unwrap(Square_new(MaxCoord, MaxCoord))

\* Piece::position: the stored position, or the corner square when it is
\* missing or does not resolve
position_of(piece) ==
    IF piece.tag = "Rook" THEN piece.position
    ELSE IF IsSome(ResolvePosition(piece.position))
         THEN Unwrap(ResolvePosition(piece.position))
         ELSE Unwrap(Square_new(0, 0))

King_can_move_to_WithSelf(king, target) ==
    LET pos       == position_of(king)
        file_diff == Abs(pos.file - target.file)
        rank_diff == Abs(pos.rank - target.rank)
    IN  file_diff <= 1 /\ rank_diff <= 1

\* King::can_move_to
King_can_move_to(king, target) ==
    LET pos       == position_of(king)
        file_diff == Abs(pos.file - target.file)
        rank_diff == Abs(pos.rank - target.rank)
    IN  (file_diff <= 1 /\ rank_diff <= 1) /\ ~(file_diff = 0 /\ rank_diff = 0)

\* for file in 0..=7 { for rank in 0..=7 {..} }: the squares in scan order
ScanOrder ==
    [i \in 1..((MaxCoord + 1) * (MaxCoord + 1)) |->
        Sq((i - 1) \div (MaxCoord + 1), (i - 1) % (MaxCoord + 1))]

\* the test of the inner loop body of King::valid_moves
KingKeeps(king, target) ==
    /\ IsSome(Square_new(target.file, target.rank))
    /\ King_can_move_to(king, target)
    /\ is_empty_or_capturable(target, color_of(king))

RECURSIVE KingScan(_, _)
\* the scan of King::valid_moves from the i-th square of the scan order on
KingScan(king, i) ==
    IF i > Len(ScanOrder) THEN <<>>
    ELSE (IF KingKeeps(king, ScanOrder[i]) THEN <<ScanOrder[i]>> ELSE <<>>)
         \o KingScan(king, i + 1)

\* King::valid_moves
King_valid_moves(king) == KingScan(king, 1)

QueenDirections ==
    << <<0, 1>>, <<0, -1>>, <<1, 0>>, <<-1, 0>>,
       <<1, 1>>, <<1, -1>>, <<-1, 1>>, <<-1, -1>> >>

RookDirections == << <<0, 1>>, <<0, -1>>, <<1, 0>>, <<-1, 0>> >>

BishopDirections == << <<1, 1>>, <<1, -1>>, <<-1, 1>>, <<-1, -1>> >>

\* Queen::valid_moves
Queen_valid_moves(queen) ==
    sliding_piece_moves(position_of(queen), color_of(queen), QueenDirections)

\* Rook::valid_moves
Rook_valid_moves(rook) ==
    sliding_piece_moves(position_of(rook), color_of(rook), RookDirections)

\* Bishop::valid_moves
Bishop_valid_moves(bishop) ==
    sliding_piece_moves(position_of(bishop), color_of(bishop), BishopDirections)

KnightOffsets ==
    << <<2, 1>>, <<2, -1>>, <<-2, 1>>, <<-2, -1>>,
       <<1, 2>>, <<1, -2>>, <<-1, 2>>, <<-1, -2>> >>

KnightTarget_Wrapping(pos, df, dr) ==
    Square_new((pos.file + df) % (MaxCoord + 1), (pos.rank + dr) % (MaxCoord + 1))

\* Square::new((pos.file as i32 + df) as u8, (pos.rank as i32 + dr) as u8)
KnightTarget(pos, df, dr) ==
    Square_new(AsU8(pos.file + df), AsU8(pos.rank + dr))

RECURSIVE KnightFrom(_, _)
\* for (df, dr) in offsets, from the i-th offset on
KnightFrom(knight, i) ==
    IF i > Len(KnightOffsets) THEN <<>>
    ELSE LET target == KnightTarget(position_of(knight),
                                    KnightOffsets[i][1], KnightOffsets[i][2])
         IN  (IF /\ IsSome(target)
                 /\ is_empty_or_capturable(Unwrap(target), color_of(knight))
              THEN target ELSE <<>>)
             \o KnightFrom(knight, i + 1)

\* Knight::valid_moves
Knight_valid_moves(knight) == KnightFrom(knight, 1)

\* Pawn::valid_moves
Pawn_valid_moves(pawn) ==
    pawn_moves(position_of(pawn), color_of(pawn), pawn.has_moved)

\* Queen::can_move_to
Queen_can_move_to(queen, target) ==
    LET pos       == position_of(queen)
        file_diff == Abs(pos.file - target.file)
        rank_diff == Abs(pos.rank - target.rank)
    IN  (file_diff = 0 \/ rank_diff = 0 \/ file_diff = rank_diff)
        /\ ~(file_diff = 0 /\ rank_diff = 0)

\* Rook::can_move_to
Rook_can_move_to(rook, target) ==
    LET file_diff == Abs(rook.position.file - target.file)
        rank_diff == Abs(rook.position.rank - target.rank)
    IN  (file_diff = 0 \/ rank_diff = 0) /\ ~(file_diff = 0 /\ rank_diff = 0)

\* Bishop::can_move_to
Bishop_can_move_to(bishop, target) ==
    LET pos       == position_of(bishop)
        file_diff == Abs(pos.file - target.file)
        rank_diff == Abs(pos.rank - target.rank)
    IN  file_diff = rank_diff /\ file_diff # 0

\* Knight::can_move_to
Knight_can_move_to(knight, target) ==
    LET pos       == position_of(knight)
        file_diff == Abs(pos.file - target.file)
        rank_diff == Abs(pos.rank - target.rank)
    IN  (file_diff = 2 /\ rank_diff = 1) \/ (file_diff = 1 /\ rank_diff = 2)

Pawn_can_move_to_AlwaysDouble(pawn, target) ==
    LET pos       == position_of(pawn)
        direction == IF color_of(pawn) = "White" THEN 1 ELSE -1
        rank_diff == target.rank - pos.rank
        file_diff == Abs(target.file - pos.file)
    IN  IF file_diff = 0
        THEN rank_diff = direction \/ rank_diff = direction * 2
        ELSE file_diff = 1 /\ rank_diff = direction

\* Pawn::can_move_to
Pawn_can_move_to(pawn, target) ==
    LET pos       == position_of(pawn)
        direction == IF color_of(pawn) = "White" THEN 1 ELSE -1
        rank_diff == target.rank - pos.rank
        file_diff == Abs(target.file - pos.file)
    IN  IF file_diff = 0
        THEN IF rank_diff = direction THEN TRUE
             ELSE IF rank_diff = direction * 2 /\ ~pawn.has_moved THEN TRUE
             ELSE FALSE
        ELSE IF file_diff = 1 /\ rank_diff = direction THEN TRUE
        ELSE FALSE

\* Piece::can_move_to(&self, target) on a piece of any variant
can_move_to(piece, target) ==
    CASE piece.tag = "King"   -> King_can_move_to(piece, target)
      [] piece.tag = "Queen"  -> Queen_can_move_to(piece, target)
      [] piece.tag = "Rook"   -> Rook_can_move_to(piece, target)
      [] piece.tag = "Bishop" -> Bishop_can_move_to(piece, target)
      [] piece.tag = "Knight" -> Knight_can_move_to(piece, target)
      [] piece.tag = "Pawn"   -> Pawn_can_move_to(piece, target)

\* King::from_proto, Queen::from_proto, Bishop::from_proto,
\* Knight::from_proto, Pawn::from_proto: the proto message wrapped as it is,
\* with any colour code and any optional position
Piece_from_proto(tag, color, position, has_moved) ==
    [tag |-> tag, color |-> color, position |-> position, has_moved |-> has_moved]

\* Piece::valid_moves(&self, board) on a piece of any variant
valid_moves(piece) ==
    CASE piece.tag = "King"   -> King_valid_moves(piece)
      [] piece.tag = "Queen"  -> Queen_valid_moves(piece)
      [] piece.tag = "Rook"   -> Rook_valid_moves(piece)
      [] piece.tag = "Bishop" -> Bishop_valid_moves(piece)
      [] piece.tag = "Knight" -> Knight_valid_moves(piece)
      [] piece.tag = "Pawn"   -> Pawn_valid_moves(piece)

-----------------------------------------------------------------------------
(* Inputs: the snapshots boards are built from and the pieces queried *)

RECURSIVE SubLists(_, _, _)
\* the sub-lists of at most n elements of list, from its i-th element on, in
\* the order of list
SubLists(list, i, n) ==
    IF n = 0 \/ i > Len(list) THEN {<<>>}
    ELSE SubLists(list, i + 1, n)
         \cup {<<list[i]>> \o t : t \in SubLists(list, i + 1, n - 1)}

\* a non-captured piece with a colour code on an external position
Placed(color, file, rank) ==
    ProtoPiece(Some(Kind("Pawn", color, Some(Position(file, rank)))), FALSE)

\* the pieces that stand in the way of a moving piece: both colours on two
\* squares adjacent on a file, on a square of the same diagonal and on the
\* corner of that diagonal; a piece with the unspecified colour code 0; a
\* captured piece
BlockerPieces ==
    << Placed(1, 4, 4), Placed(2, 4, 4), Placed(1, 4, 5), Placed(2, 4, 5),
       Placed(1, 6, 6), Placed(2, 6, 6), Placed(1, 8, 8), Placed(2, 8, 8),
       Placed(0, 6, 4),
       ProtoPiece(Some(Kind("Pawn", 2, Some(Position(4, 5)))), TRUE) >>

MoveSnapshots ==
    {GameState(ps) : ps \in SubLists(BlockerPieces, 1, MaxPieces)}

\* a piece of a snapshot that may be malformed: position is an Option
Listed(tag, color, position, captured) ==
    ProtoPiece(Some(Kind(tag, color, position)), captured)

\* the pieces of the snapshots the index is checked on: both colours, each
\* without a position, on a1, on e5 and on the rejected external file 9, each
\* captured or not; a piece without a kind; a piece with the unspecified
\* colour code 0 on the external file 0
IndexPieces ==
    << Listed("Queen", 1, None, FALSE),
       Listed("Queen", 1, None, TRUE),
       Listed("Queen", 1, Some(Position(1, 1)), FALSE),
       Listed("Queen", 1, Some(Position(1, 1)), TRUE),
       Listed("Bishop", 1, Some(Position(5, 5)), FALSE),
       Listed("Bishop", 1, Some(Position(5, 5)), TRUE),
       Listed("Pawn", 1, Some(Position(9, 1)), FALSE),
       Listed("Pawn", 1, Some(Position(9, 1)), TRUE),
       Listed("Knight", 2, None, FALSE),
       Listed("Knight", 2, None, TRUE),
       Listed("Knight", 2, Some(Position(1, 1)), FALSE),
       Listed("Knight", 2, Some(Position(1, 1)), TRUE),
       Listed("Pawn", 2, Some(Position(5, 5)), FALSE),
       Listed("Pawn", 2, Some(Position(5, 5)), TRUE),
       Listed("Queen", 2, Some(Position(9, 1)), FALSE),
       Listed("Queen", 2, Some(Position(9, 1)), TRUE),
       ProtoPiece(None, FALSE),
       Listed("King", 0, Some(Position(0, 1)), FALSE) >>

IndexSnapshots ==
    {GameState(ps) : ps \in SubLists(IndexPieces, 1, MaxPieces)}

\* pieces on external positions with a coordinate 0, beside pieces on the
\* positions these collapse onto
CoordPieces ==
    << Placed(1, 0, 0), Placed(2, 1, 1), Placed(1, 0, 8), Placed(2, 8, 1) >>

CoordSnapshots ==
    {GameState(ps) : ps \in SubLists(CoordPieces, 1, MaxPieces)}

\* external coordinate values: around the valid range 1..8, and the values
\* that differ from these by the modulus of the eight-bit cut
ExtValues ==
    ((-ExtLow)..ExtHigh)
    \cup ((U8Modulus - ExtLow)..(U8Modulus + ExtLow))
    \cup ((-U8Modulus - ExtLow)..(-U8Modulus + ExtLow))

\* the positions handed to Square::from_proto: made by an external producer,
\* or by Square::to_proto
ExtPositions ==
    {Position(f, r) : f \in ExtValues, r \in ExtValues}
    \cup {Square_to_proto(sq) : sq \in Squares}

\* a snapshot with every field set: the piece list, the player to move, the
\* four castling rights, the en-passant target and the two clocks
GameStateOf(pieces, h) ==
    [GameState(pieces) EXCEPT
        !.current_player           = h[1],
        !.white_kingside_castling  = h[2],
        !.white_queenside_castling = h[3],
        !.black_kingside_castling  = h[4],
        !.black_queenside_castling = h[5],
        !.en_passant_target        = h[6],
        !.halfmove_clock           = h[7],
        !.fullmove_number          = h[8]]

\* the fields of a snapshot beside its pieces: the start of a game with White
\* to move; Black to move with an en-passant target; an unspecified player
\* with a target that does not resolve; White to move with mixed rights
Headers ==
    { <<1, TRUE, TRUE, TRUE, TRUE, None, 0, 1>>,
      <<2, TRUE, FALSE, FALSE, TRUE, Some(Position(5, 3)), 0, 12>>,
      <<0, FALSE, FALSE, FALSE, FALSE, Some(Position(9, 9)), 49, 0>>,
      <<1, FALSE, TRUE, TRUE, FALSE, Some(Square_to_proto(Sq(3, 5))), 7, 30>> }

\* the pieces of the snapshots handed to from_proto and asked back: live
\* pieces of both colours, a captured piece, a piece without a position, a
\* piece without a kind
RoundTripPieces ==
    << Placed(1, 4, 4), Placed(2, 4, 5), Placed(2, 5, 5),
       Listed("Pawn", 2, Some(Position(4, 5)), TRUE),
       Listed("Queen", 1, None, FALSE),
       ProtoPiece(None, FALSE) >>

\* snapshots with a board of up to MaxPieces pieces, and without a board
RoundTripSnapshots ==
    {GameStateOf(ps, h) : ps \in SubLists(RoundTripPieces, 1, MaxPieces),
                          h \in Headers}
    \cup {[GameStateOf(<<>>, h) EXCEPT !.board = None] : h \in Headers}

SeqsUpTo(S, n) == UNION {[1..k -> S] : k \in 0..n}

\* boards for the calls of the public sliding_piece_moves: empty, or one piece
LoopSnapshots == {GameState(ps) : ps \in SubLists(BlockerPieces, 1, 1)}

\* the squares sliding_piece_moves is called from: a corner, a square that
\* blocker pieces stand on, an edge square
LoopFrom == {Sq(0, 0), Sq(3, 3), Sq(7, 4)}

\* the (file-delta, rank-delta) pairs a caller may hand over; the parameter
\* type &[(i32, i32)] admits every pair, the pair (0, 0) included
DirectionPairs == (-1..1) \X (-1..1)

DirectionLists == SeqsUpTo(DirectionPairs, MaxDirs)

\* the pieces asked for their moves: made by new() on any square
Subjects(tag) == {Piece_new(tag, c, sq) : c \in Colors, sq \in Squares}

Rooks == {Rook_new(c, sq) : c \in Colors, sq \in Squares}

Pawns == Subjects("Pawn") \cup {mark_moved(p) : p \in Subjects("Pawn")}

\* the variants that wrap a proto message
ProtoTags == {"King", "Queen", "Bishop", "Knight", "Pawn"}

\* pieces made by from_proto from a message with any external position or
\* none, asked for their position
StoredPieces ==
    {Piece_from_proto(tag, c, Some(pos), FALSE) :
        tag \in ProtoTags, c \in 1..2, pos \in ExtPositions}
    \cup {Piece_from_proto(tag, c, None, hm) :
            tag \in ProtoTags, c \in 0..2, hm \in BOOLEAN}

\* the stored positions of the pieces asked for their moves: none; the
\* external corner values 0, 1 and 8; a square inside the board; values
\* beyond the board on either side
MovePositions ==
    {None} \cup
    {Some(Position(p[1], p[2])) :
        p \in {<<0, 0>>, <<1, 1>>, <<4, 4>>, <<8, 8>>, <<9, 4>>, <<4, 9>>,
               <<-1, 3>>, <<4, 0>>}}

\* pieces made by from_proto and asked for their moves
MovePieces ==
    {Piece_from_proto(tag, c, position, hm) :
        tag \in ProtoTags, c \in 0..2, position \in MovePositions,
        hm \in BOOLEAN}

\* the pieces asked where they can move: every variant made by new() on any
\* square, pawns also after mark_moved, and pieces made by from_proto
NewPieces ==
    Rooks \cup Pawns \cup UNION {Subjects(tag) : tag \in ProtoTags \ {"Pawn"}}

\* the boards beside which can_move_to is asked: it takes no board
GeometrySnapshots == {GameState(<<>>), GameState(<<Placed(1, 4, 5)>>)}

-----------------------------------------------------------------------------
(* The state machine: one Board value from its construction on.  A Board   *)
(* has no mutating operation; after from_proto the caller makes read-only  *)
(* calls, each returning a value the caller then drops.                    *)

\* Board::from_proto(gs): the state after construction
Board_from_proto(gs) ==
    /\ inner = gs
    /\ square_to_piece = rebuild_indices(gs).square_to_piece
    /\ white_pieces = rebuild_indices(gs).white_pieces
    /\ black_pieces = rebuild_indices(gs).black_pieces
    /\ call = [op |-> "from_proto"]
    /\ ret = None
    /\ pc = "idle"
    /\ ray = None

\* a read-only call on the board: the operation c with its arguments,
\* returning value
Query(c, value) ==
    /\ pc = "idle"
    /\ call' = c
    /\ ret' = value
    /\ pc' = "returned"
    /\ UNCHANGED <<boardVars, ray>>

\* the caller drops the returned value
Drop ==
    /\ pc = "returned"
    /\ call' = [op |-> "none"]
    /\ ret' = None
    /\ pc' = "idle"
    /\ UNCHANGED <<boardVars, ray>>

QueenValidMoves ==
    /\ pc = "idle"
    /\ \E queen \in Subjects("Queen") :
          Query([op |-> "valid_moves", piece |-> queen], Queen_valid_moves(queen))

RookValidMoves ==
    /\ pc = "idle"
    /\ \E rook \in Rooks :
          Query([op |-> "valid_moves", piece |-> rook], Rook_valid_moves(rook))

BishopValidMoves ==
    /\ pc = "idle"
    /\ \E bishop \in Subjects("Bishop") :
          Query([op |-> "valid_moves", piece |-> bishop], Bishop_valid_moves(bishop))

IsEmptyOrCapturable ==
    /\ pc = "idle"
    /\ \E square \in Squares, color \in Colors :
          Query([op |-> "is_empty_or_capturable", color |-> color, square |-> square],
                is_empty_or_capturable(square, color))

PieceAt ==
    /\ pc = "idle"
    /\ \E square \in Squares :
          Query([op |-> "piece_at", square |-> square], piece_at(square))

PawnMoves ==
    /\ pc = "idle"
    /\ \E from \in Squares, color \in Colors, has_moved \in BOOLEAN :
          Query([op |-> "pawn_moves", color |-> color, has_moved |-> has_moved,
                 from |-> from],
                pawn_moves(from, color, has_moved))

KnightValidMoves ==
    /\ pc = "idle"
    /\ \E knight \in Subjects("Knight") :
          Query([op |-> "valid_moves", piece |-> knight], Knight_valid_moves(knight))

KingValidMoves ==
    /\ pc = "idle"
    /\ \E king \in Subjects("King") :
          Query([op |-> "valid_moves", piece |-> king], King_valid_moves(king))

PiecesOfColor ==
    /\ pc = "idle"
    /\ \E color \in Colors :
          Query([op |-> "pieces_of_color", color |-> color], pieces_of_color(color))

AllPieces == Query([op |-> "all_pieces"], all_pieces)

SquareNew ==
    /\ pc = "idle"
    /\ \E file \in 0..ExtHigh, rank \in 0..ExtHigh :
          Query([op |-> "Square::new", file |-> file, rank |-> rank],
                Square_new(file, rank))

SquareFromProto ==
    /\ pc = "idle"
    /\ \E pos \in ExtPositions :
          Query([op |-> "Square::from_proto", pos |-> pos], Square_from_proto(pos))

SquareToProto ==
    /\ pc = "idle"
    /\ \E sq \in Squares :
          Query([op |-> "Square::to_proto", sq |-> sq], Square_to_proto(sq))

SquareToAlgebraic ==
    /\ pc = "idle"
    /\ \E sq \in Squares :
          Query([op |-> "Square::to_algebraic", sq |-> sq], Square_to_algebraic(sq))

PawnValidMoves ==
    /\ pc = "idle"
    /\ \E pawn \in Pawns :
          Query([op |-> "valid_moves", piece |-> pawn], Pawn_valid_moves(pawn))

\* a call of the public sliding_piece_moves that returns: every ray of a
\* direction pair other than (0, 0) leaves its loop
SlidingPieceMoves ==
    /\ pc = "idle"
    /\ \E from \in LoopFrom, color \in Colors,
          directions \in SeqsUpTo(DirectionPairs \ {<<0, 0>>}, MaxDirs) :
          Query([op |-> "sliding_piece_moves", color |-> color, from |-> from,
                 directions |-> directions],
                sliding_piece_moves(from, color, directions))

ToProto == Query([op |-> "to_proto"], to_proto)

CurrentPlayer == Query([op |-> "current_player"], current_player)

WhiteKingsideCastling ==
    Query([op |-> "white_kingside_castling"], white_kingside_castling)

WhiteQueensideCastling ==
    Query([op |-> "white_queenside_castling"], white_queenside_castling)

BlackKingsideCastling ==
    Query([op |-> "black_kingside_castling"], black_kingside_castling)

BlackQueensideCastling ==
    Query([op |-> "black_queenside_castling"], black_queenside_castling)

EnPassantTarget == Query([op |-> "en_passant_target"], en_passant_target)

HalfmoveClock == Query([op |-> "halfmove_clock"], halfmove_clock)

FullmoveNumber == Query([op |-> "fullmove_number"], fullmove_number)

\* Piece::position on a piece made by from_proto, or on a rook
PiecePosition ==
    /\ pc = "idle"
    /\ \E piece \in StoredPieces \cup Rooks :
          Query([op |-> "position", piece |-> piece], position_of(piece))

\* Piece::valid_moves on a piece made by from_proto
StoredValidMoves ==
    /\ pc = "idle"
    /\ \E piece \in MovePieces :
          Query([op |-> "valid_moves", piece |-> piece], valid_moves(piece))

\* Piece::can_move_to(&self, target)
PieceCanMoveTo ==
    /\ pc = "idle"
    /\ \E piece \in NewPieces \cup MovePieces, target \in Squares :
          Query([op |-> "can_move_to", piece |-> piece, target |-> target],
                can_move_to(piece, target))

\* sliding_piece_moves called: `let mut moves = Vec::new()` and the entry of
\* the for loop over directions
SlidingCall ==
    \E from \in LoopFrom, color \in Colors, directions \in DirectionLists :
        /\ pc = "idle"
        /\ call' = [op |-> "sliding_piece_moves", color |-> color, from |-> from,
                    directions |-> directions]
        /\ ret' = None
        /\ pc' = "for"
        /\ ray' = Some([color |-> color, file |-> from.file, rank |-> from.rank,
                        from |-> from, directions |-> directions, di |-> 1,
                        moves |-> <<>>, iter |-> 0])
        /\ UNCHANGED boardVars

\* the head of `for &(df, dr) in directions`: the next direction, with file
\* and rank set to the from-square, or the return of moves
SlidingFor ==
    /\ pc = "for"
    /\ LET l == Unwrap(ray)
       IN  IF l.di > Len(l.directions)
           THEN /\ pc' = "returned"
                /\ ret' = l.moves
                /\ ray' = None
           ELSE /\ pc' = "loop"
                /\ ret' = ret
                /\ ray' = Some([l EXCEPT !.file = l.from.file,
                                         !.rank = l.from.rank,
                                         !.iter = 0])
    /\ UNCHANGED <<boardVars, call>>

\* one pass through the body of `loop`; the model follows at most MaxIter
\* passes of one ray
SlidingLoop ==
    /\ pc = "loop"
    /\ Unwrap(ray).iter < MaxIter
    /\ LET l  == Unwrap(ray)
           d  == l.directions[l.di]
           st == SlideStep(l.color, l.file, l.rank, d[1], d[2])
       IN  /\ ray' = Some([l EXCEPT !.file = st.file,
                                    !.rank = st.rank,
                                    !.di = IF st.brk THEN l.di + 1 ELSE l.di,
                                    !.moves = l.moves \o st.push,
                                    !.iter = l.iter + 1])
           /\ pc' = IF st.brk THEN "for" ELSE "loop"
    /\ UNCHANGED <<boardVars, call, ret>>

InitMoves == \E gs \in MoveSnapshots : Board_from_proto(gs)

NextSliding ==
    \/ QueenValidMoves
    \/ RookValidMoves
    \/ BishopValidMoves
    \/ Drop

\* sliding pieces asked for their moves on boards with up to MaxPieces pieces
SpecSliding == InitMoves /\ [][NextSliding]_vars

NextOccupancy ==
    \/ IsEmptyOrCapturable
    \/ PieceAt
    \/ Drop

\* occupancy questions on boards with up to MaxPieces pieces
SpecOccupancy == InitMoves /\ [][NextOccupancy]_vars

NextPawn ==
    \/ PawnMoves
    \/ Drop

\* pawn move generation on boards with up to MaxPieces pieces
SpecPawn == InitMoves /\ [][NextPawn]_vars

NextLeapers ==
    \/ KnightValidMoves
    \/ KingValidMoves
    \/ Drop

\* knights and kings asked for their moves on boards with up to MaxPieces pieces
SpecLeapers == InitMoves /\ [][NextLeapers]_vars

InitIndex == \E gs \in IndexSnapshots : Board_from_proto(gs)

NextIndex ==
    \/ PieceAt
    \/ PiecesOfColor
    \/ AllPieces
    \/ Drop

\* the index of boards built from snapshots with malformed and captured pieces
SpecIndex == InitIndex /\ [][NextIndex]_vars

InitCoords == \E gs \in CoordSnapshots : Board_from_proto(gs)

NextSquare ==
    \/ SquareNew
    \/ SquareFromProto
    \/ SquareToProto
    \/ SquareToAlgebraic
    \/ Drop

\* the coordinate conversions, beside boards whose pieces stand on external
\* coordinates 0, 1 and 8
SpecSquare == InitCoords /\ [][NextSquare]_vars

InitLoop == \E gs \in LoopSnapshots : Board_from_proto(gs)

NextSlideLoop ==
    \/ SlidingCall
    \/ SlidingFor
    \/ SlidingLoop
    \/ Drop

\* the public sliding_piece_moves, pass by pass, called with direction lists
\* of up to MaxDirs pairs
SpecSlideLoop == InitLoop /\ [][NextSlideLoop]_vars

InitRoundTrip == \E gs \in RoundTripSnapshots : Board_from_proto(gs)

NextRoundTrip ==
    \/ ToProto
    \/ CurrentPlayer
    \/ WhiteKingsideCastling
    \/ WhiteQueensideCastling
    \/ BlackKingsideCastling
    \/ BlackQueensideCastling
    \/ EnPassantTarget
    \/ HalfmoveClock
    \/ FullmoveNumber
    \/ PieceAt
    \/ IsEmptyOrCapturable
    \/ PiecesOfColor
    \/ AllPieces
    \/ SlidingPieceMoves
    \/ PawnMoves
    \/ QueenValidMoves
    \/ RookValidMoves
    \/ BishopValidMoves
    \/ KnightValidMoves
    \/ KingValidMoves
    \/ PawnValidMoves
    \/ Drop

\* a board built from a snapshot with all its fields set, asked every
\* read-only question and asked for the snapshot back
SpecRoundTrip == InitRoundTrip /\ [][NextRoundTrip]_vars

NextPosition ==
    \/ PiecePosition
    \/ StoredValidMoves
    \/ Drop

\* pieces wrapping any proto message asked for their position and their
\* moves, on boards with at most one piece
SpecPosition == InitLoop /\ [][NextPosition]_vars

InitGeometry == \E gs \in GeometrySnapshots : Board_from_proto(gs)

NextGeometry ==
    \/ PieceCanMoveTo
    \/ Drop

\* the geometric predicate of every variant, asked for every target square
SpecGeometry == InitGeometry /\ [][NextGeometry]_vars

NextMoves ==
    \/ KingValidMoves
    \/ QueenValidMoves
    \/ RookValidMoves
    \/ BishopValidMoves
    \/ KnightValidMoves
    \/ PawnValidMoves
    \/ StoredValidMoves
    \/ Drop

\* pieces of every variant, made by new or by from_proto, asked for their
\* moves on boards with up to MaxPieces pieces
SpecMoves == InitMoves /\ [][NextMoves]_vars

-----------------------------------------------------------------------------
(* What the claims speak of, read off the board's state *)

Range(seq) == {seq[i] : i \in DOMAIN seq}

NoDuplicates(seq) == Cardinality(Range(seq)) = Len(seq)

OnBoard(f, r) == f \in Coords /\ r \in Coords

Occupied(sq) == sq \in DOMAIN square_to_piece

\* the colour of the piece standing on an occupied square: Black for the
\* colour code 2, White for every other code
ColourAt(sq) ==
    IF square_to_piece[sq].kind[1].color = 2 THEN "Black" ELSE "White"

SameColourAt(sq, c) == Occupied(sq) /\ ColourAt(sq) = c

OpponentAt(sq, c) == Occupied(sq) /\ ColourAt(sq) # c

Returned(op) == pc = "returned" /\ call.op = op

ValidMovesOf(tag) == Returned("valid_moves") /\ call.piece.tag = tag

-----------------------------------------------------------------------------
(* C1: rays of the sliding pieces *)

Compass == {d \in (-1..1) \X (-1..1) : d # <<0, 0>>}

Orthogonal == {d \in Compass : d[1] = 0 \/ d[2] = 0}

Diagonal == {d \in Compass : d[1] # 0 /\ d[2] # 0}

RayDirections(tag) ==
    CASE tag = "Queen" -> Compass
      [] tag = "Rook" -> Orthogonal
      [] tag = "Bishop" -> Diagonal

\* the k-th square from `from` in direction d, when it is on the board
Along(from, d, k) == Sq(from.file + k * d[1], from.rank + k * d[2])

\* the number of squares between `from` and the board edge in direction d
ToEdge(from, d) ==
    Cardinality({k \in 1..MaxCoord :
                   OnBoard(from.file + k * d[1], from.rank + k * d[2])})

\* the distances at which the ray from `from` in direction d meets a piece
Blocks(from, d) == {k \in 1..ToEdge(from, d) : Occupied(Along(from, d, k))}

FirstBlock(from, d) ==
    CHOOSE k \in Blocks(from, d) : \A j \in Blocks(from, d) : k <= j

\* how many squares of the ray a piece of colour c may move to
RayLength(from, c, d) ==
    IF Blocks(from, d) = {} THEN ToEdge(from, d)
    ELSE IF SameColourAt(Along(from, d, FirstBlock(from, d)), c)
         THEN FirstBlock(from, d) - 1
         ELSE FirstBlock(from, d)

ExpectedRay(from, c, d) == {Along(from, d, k) : k \in 1..RayLength(from, c, d)}

SlidingReturned ==
    /\ Returned("valid_moves")
    /\ call.piece.tag \in {"Queen", "Rook", "Bishop"}

\* C1: a sliding piece's valid_moves holds, for each ray direction of the
\* piece (Queen 8, Rook 4 orthogonal, Bishop 4 diagonal), exactly the squares
\* from the piece outward up to the board edge, up to but excluding the first
\* same-colour piece, or up to and including the first opponent piece, each
\* once and nothing else: k squares on a ray whose first piece is an opponent
\* at distance k, k - 1 when it is of the mover's colour.
C1_SlidingRays ==
    SlidingReturned =>
        LET from == position_of(call.piece)
            c    == color_of(call.piece)
            ds   == RayDirections(call.piece.tag)
        IN  /\ Range(ret) = UNION {ExpectedRay(from, c, d) : d \in ds}
            /\ NoDuplicates(ret)
            /\ \A d \in ds :
                 Cardinality({sq \in Range(ret) :
                     \E k \in 1..MaxCoord :
                         /\ OnBoard(from.file + k * d[1], from.rank + k * d[2])
                         /\ sq = Along(from, d, k)})
                 = RayLength(from, c, d)

\* a queen with an opponent piece two or more squares away on one ray, with
\* squares behind it, and a piece of her own colour two or more squares away
\* on another
C1_Witness ==
    /\ ValidMovesOf("Queen")
    /\ LET from == position_of(call.piece)
           c    == color_of(call.piece)
       IN  /\ \E d \in Compass :
                /\ Blocks(from, d) # {}
                /\ FirstBlock(from, d) >= 2
                /\ FirstBlock(from, d) < ToEdge(from, d)
                /\ OpponentAt(Along(from, d, FirstBlock(from, d)), c)
                /\ Along(from, d, FirstBlock(from, d)) \in Range(ret)
           /\ \E d \in Compass :
                /\ Blocks(from, d) # {}
                /\ FirstBlock(from, d) >= 2
                /\ SameColourAt(Along(from, d, FirstBlock(from, d)), c)
                /\ Along(from, d, FirstBlock(from, d) - 1) \in Range(ret)

-----------------------------------------------------------------------------
(* C2: the occupancy predicate *)

\* C2: is_empty_or_capturable(s, c) is true when no piece stands on s, true
\* when the piece on s has the colour opposite to c, and false exactly when
\* the piece on s has the colour c.
C2_EmptyOrCapturable ==
    Returned("is_empty_or_capturable") =>
        /\ ~Occupied(call.square) => ret = TRUE
        /\ OpponentAt(call.square, call.color) => ret = TRUE
        /\ ret = FALSE <=> SameColourAt(call.square, call.color)

\* asked about a square that holds a piece of the asking colour, whose colour
\* code is the unspecified 0
C2_Witness ==
    /\ Returned("is_empty_or_capturable")
    /\ SameColourAt(call.square, call.color)
    /\ square_to_piece[call.square].kind[1].color = 0
    /\ ret = FALSE

-----------------------------------------------------------------------------
(* C3: pawn moves *)

PawnDirection(c) == IF c = "White" THEN 1 ELSE -1

\* the squares a pawn of colour c on (f, r) may move to
ExpectedPawnMoves(f, r, c, has_moved) ==
    LET d == PawnDirection(c)
    IN  {sq \in Squares :
           \/ /\ sq = Sq(f, r + d)
              /\ ~Occupied(sq)
           \/ /\ sq = Sq(f, r + 2 * d)
              /\ ~has_moved
              /\ ~Occupied(Sq(f, r + d))
              /\ ~Occupied(sq)
           \/ /\ sq.rank = r + d
              /\ sq.file \in {f - 1, f + 1}
              /\ OpponentAt(sq, c)}

\* C3: pawn_moves returns exactly: the square ahead iff it is unoccupied; the
\* square two ahead iff the pawn has not moved and both squares ahead are
\* unoccupied; each diagonal-forward square iff an opponent piece stands on
\* it.  A pawn on its last rank gets no move, an empty diagonal square is no
\* move.
C3_PawnMoves ==
    Returned("pawn_moves") =>
        /\ Range(ret) = ExpectedPawnMoves(call.from.file, call.from.rank,
                                          call.color, call.has_moved)
        /\ NoDuplicates(ret)
        /\ (call.from.rank + PawnDirection(call.color) \notin Coords) => ret = <<>>
        /\ \A sq \in Range(ret) : sq.file # call.from.file => Occupied(sq)

\* an unmoved pawn that gets the single step, the double step and a capture,
\* next to an empty diagonal square
C3_Witness ==
    /\ Returned("pawn_moves")
    /\ ~call.has_moved
    /\ Len(ret) = 3
    /\ \E sq \in Range(ret) : sq.file # call.from.file /\ OpponentAt(sq, call.color)

-----------------------------------------------------------------------------
(* C4: knight moves *)

LShaped(from, sq) ==
    <<Abs(sq.file - from.file), Abs(sq.rank - from.rank)>> \in {<<1, 2>>, <<2, 1>>}

\* C4: a knight's valid_moves holds exactly the on-board squares at the eight
\* L-shaped offsets that are empty or hold an opponent piece, whatever stands
\* on the other squares; from (4,4) on an empty board these are the eight
\* squares of the fixed set; no off-board offset wraps around.
C4_KnightMoves ==
    ValidMovesOf("Knight") =>
        LET from == position_of(call.piece)
            c    == color_of(call.piece)
        IN  /\ Range(ret) = {sq \in Squares :
                               LShaped(from, sq) /\ ~SameColourAt(sq, c)}
            /\ NoDuplicates(ret)
            /\ (from = Sq(4, 4) /\ DOMAIN square_to_piece = {}) =>
                   Range(ret) = {Sq(6, 5), Sq(6, 3), Sq(2, 5), Sq(2, 3),
                                 Sq(5, 6), Sq(5, 2), Sq(3, 6), Sq(3, 2)}

\* a knight close to the edge, so that some offsets leave the board, that may
\* capture on one of its squares and finds another taken by its own colour
C4_Witness ==
    /\ ValidMovesOf("Knight")
    /\ LET from == position_of(call.piece)
           c    == color_of(call.piece)
       IN  /\ from.file + 2 > MaxCoord
           /\ \E sq \in Squares : LShaped(from, sq) /\ SameColourAt(sq, c)
           /\ \E sq \in Range(ret) : OpponentAt(sq, c)

-----------------------------------------------------------------------------
(* C5: king moves *)

\* direct enumeration of the eight neighbour offsets
KingNeighbours(from, c) ==
    {Sq(from.file + d[1], from.rank + d[2]) :
        d \in {e \in Compass :
                 /\ OnBoard(from.file + e[1], from.rank + e[2])
                 /\ ~SameColourAt(Sq(from.file + e[1], from.rank + e[2]), c)}}

\* C5: the king's scan of all 64 squares returns the same squares as direct
\* enumeration of the eight neighbour offsets kept when on the board and not
\* held by the king's own colour: 8 squares from (4,4) and 3 from the corner
\* (0,0) on an empty board, never the king's own square.
C5_KingMoves ==
    ValidMovesOf("King") =>
        LET from == position_of(call.piece)
            c    == color_of(call.piece)
        IN  /\ Range(ret) = KingNeighbours(from, c)
            /\ NoDuplicates(ret)
            /\ from \notin Range(ret)
            /\ (from = Sq(4, 4) /\ DOMAIN square_to_piece = {}) => Len(ret) = 8
            /\ (from = Sq(0, 0) /\ DOMAIN square_to_piece = {}) => Len(ret) = 3

\* a king next to a piece of its own colour and next to an opponent piece
C5_Witness ==
    /\ ValidMovesOf("King")
    /\ LET from == position_of(call.piece)
           c    == color_of(call.piece)
       IN  /\ \E d \in Compass :
                /\ OnBoard(from.file + d[1], from.rank + d[2])
                /\ SameColourAt(Sq(from.file + d[1], from.rank + d[2]), c)
           /\ \E sq \in Range(ret) : OpponentAt(sq, c)

-----------------------------------------------------------------------------
(* C6, C7: what the index leaves out *)

\* the piece list of the snapshot the board wraps
SnapshotPieces == IF IsSome(inner.board) THEN Unwrap(inner.board).pieces ELSE <<>>

\* the pieces found in one of the derived structures
Indexed == all_pieces \cup Range(white_pieces) \cup Range(black_pieces)

\* no kind, no position, or a position Square::from_proto rejects
Unresolvable(piece) ==
    \/ ~IsSome(piece.kind)
    \/ ~IsSome(piece.kind[1].position)
    \/ ~IsSome(Square_from_proto(piece.kind[1].position[1]))

\* C6: a piece of the snapshot without a resolvable colour or without a
\* resolvable position is in none of the derived structures: not in
\* piece_at / all_pieces, not in pieces_of_color(White), not in
\* pieces_of_color(Black).
C6_UnresolvableExcluded ==
    \A i \in DOMAIN SnapshotPieces :
        Unresolvable(SnapshotPieces[i]) => SnapshotPieces[i] \notin Indexed

\* the snapshot without its captured pieces
WithoutCaptured(gs) ==
    IF IsSome(gs.board)
    THEN [gs EXCEPT !.board =
            Some([pieces |-> SelectSeq(Unwrap(gs.board).pieces,
                                       LAMBDA p : ~p.captured)])]
    ELSE gs

\* the squares the pieces of the snapshot that are not captured resolve to
LiveSquares ==
    {Unwrap(piece_square(SnapshotPieces[i])) :
        i \in {j \in DOMAIN SnapshotPieces :
                 /\ ~SnapshotPieces[j].captured
                 /\ IsSome(piece_square(SnapshotPieces[j]))}}

\* C7: a captured piece is in no derived structure: piece_at never returns
\* it and reads a square holding only captured pieces as empty, all_pieces
\* and both colour lists leave it out; the index is the one the snapshot
\* gives with its captured pieces removed, so a captured piece blocks no ray
\* and is no capture target.
C7_CapturedExcluded ==
    /\ \A piece \in Indexed : ~piece.captured
    /\ DOMAIN square_to_piece \subseteq LiveSquares
    /\ rebuild_indices(inner) = rebuild_indices(WithoutCaptured(inner))
    /\ rebuild_indices(WithoutCaptured(inner)) =
          [square_to_piece |-> square_to_piece,
           white_pieces    |-> white_pieces,
           black_pieces    |-> black_pieces]
    /\ Returned("piece_at") /\ IsSome(ret) => ~Unwrap(ret).captured

\* piece_at asked about the square of a captured piece, on a board that has
\* another piece, and answering none
C7_Witness ==
    /\ Returned("piece_at")
    /\ ret = None
    /\ DOMAIN square_to_piece # {}
    /\ \E i \in DOMAIN SnapshotPieces :
          /\ SnapshotPieces[i].captured
          /\ piece_square(SnapshotPieces[i]) = Some(call.square)

-----------------------------------------------------------------------------
(* C8, C9: coordinate conversions *)

FileLetters == <<"a", "b", "c", "d", "e", "f", "g", "h">>

RankDigits == <<"1", "2", "3", "4", "5", "6", "7", "8">>

\* the external position of an internal square
ExpectedPosition(sq) ==
    [file      |-> sq.file + 1,
     rank      |-> sq.rank + 1,
     index     |-> sq.rank * 8 + sq.file,
     algebraic |-> <<FileLetters[sq.file + 1], RankDigits[sq.rank + 1]>>]

\* C8: for file and rank in 0..7, Square::new gives the square; its
\* to_algebraic is the letter 'a' + file followed by the digit rank + 1; its
\* to_proto has file + 1, rank + 1, the index rank * 8 + file in 0..63 and
\* that string; and from_proto of its to_proto is the square again.
C8_SquareRoundTrip ==
    /\ Returned("Square::new") /\ call.file \in Coords /\ call.rank \in Coords =>
          ret = Some(Sq(call.file, call.rank))
    /\ Returned("Square::to_algebraic") =>
          ret = <<FileLetters[call.sq.file + 1], RankDigits[call.sq.rank + 1]>>
    /\ Returned("Square::to_proto") =>
          /\ ret = ExpectedPosition(call.sq)
          /\ ret.index \in 0..63
    /\ Returned("Square::from_proto") =>
          \A sq \in Squares : call.pos = ExpectedPosition(sq) => ret = Some(sq)

\* from_proto handed the to_proto of e4 and answering e4
C8_Witness ==
    /\ Returned("Square::from_proto")
    /\ call.pos = [file |-> 5, rank |-> 4, index |-> 28, algebraic |-> <<"e", "4">>]
    /\ ret = Some(Sq(4, 3))

\* the internal coordinate of an external coordinate in 0..8
Internal(x) == IF x = 0 THEN 0 ELSE x - 1

\* the i-th piece of the snapshot is the last one not captured on its square
LastOnSquare(i) ==
    \A j \in DOMAIN SnapshotPieces :
        (j > i /\ ~SnapshotPieces[j].captured) =>
            piece_square(SnapshotPieces[j]) # piece_square(SnapshotPieces[i])

\* C9: Square::from_proto maps an external file or rank in 1..8 to the value
\* one less and the external value 0 to 0, with no error, so the external
\* coordinates 0 and 1 give the same internal coordinate; a snapshot piece on
\* an external coordinate 0 is indexed on file or rank 0.
C9_ZeroCollapses ==
    /\ Returned("Square::from_proto")
       /\ call.pos.file \in 0..(MaxCoord + 1)
       /\ call.pos.rank \in 0..(MaxCoord + 1) =>
          ret = Some(Sq(Internal(call.pos.file), Internal(call.pos.rank)))
    /\ \A i \in DOMAIN SnapshotPieces :
          LET piece == SnapshotPieces[i]
              pos   == piece.kind[1].position[1]
              sq    == Sq(Internal(pos.file), Internal(pos.rank))
          IN  (/\ ~piece.captured
               /\ IsSome(piece.kind)
               /\ IsSome(piece.kind[1].position)
               /\ pos.file \in 0..(MaxCoord + 1)
               /\ pos.rank \in 0..(MaxCoord + 1)) =>
                  /\ Occupied(sq)
                  /\ LastOnSquare(i) => square_to_piece[sq] = piece

\* from_proto handed the external position (0, 0) and answering a1, on a
\* board that holds on a1 a piece whose external position is (0, 0)
C9_Witness ==
    /\ Returned("Square::from_proto")
    /\ call.pos = Position(0, 0)
    /\ ret = Some(Sq(0, 0))
    /\ Occupied(Sq(0, 0))
    /\ square_to_piece[Sq(0, 0)] = Placed(1, 0, 0)

-----------------------------------------------------------------------------
(* C10: termination *)

\* C10: every operation terminates; the public sliding_piece_moves does so
\* for every board, from-square, colour and list of direction pairs: a ray
\* leaves its loop within the passes the 8x8 board allows, so no ray is still
\* in its loop after more than MaxCoord passes.
C10_Terminates ==
    pc = "loop" => Unwrap(ray).iter <= MaxCoord

\* the same bound for the rays whose direction pair is not (0, 0)
C10_NonZeroRaysEnd ==
    (pc = "loop" /\ Unwrap(ray).directions[Unwrap(ray).di] # <<0, 0>>) =>
        Unwrap(ray).iter <= MaxCoord

\* a call with two directions returned a ray of seven squares
C10_Returned ==
    /\ Returned("sliding_piece_moves")
    /\ Len(call.directions) = 2
    /\ Len(ret) >= MaxCoord

-----------------------------------------------------------------------------
(* C11: the snapshot round trip and the frame of the queries *)

\* the derived index as one record
Index ==
    [square_to_piece |-> square_to_piece,
     white_pieces    |-> white_pieces,
     black_pieces    |-> black_pieces]

\* C11: to_proto of a board built by from_proto(gs) is gs in every field
\* (the piece list with its captured and unresolvable pieces, the player to
\* move, the four castling rights, the en-passant target, both clocks), also
\* after any sequence of queries: no query changes the snapshot or the derived
\* index, which stays the one built from the snapshot.  For an empty piece
\* list with current_player = White both colour lists and all_pieces are
\* empty and current_player() is White.
C11_RoundTrip ==
    /\ [](/\ inner \in RoundTripSnapshots
          /\ Index = rebuild_indices(inner)
          /\ Returned("to_proto") => ret = inner
          /\ (SnapshotPieces = <<>> /\ inner.current_player = 1) =>
                /\ white_pieces = <<>>
                /\ black_pieces = <<>>
                /\ all_pieces = {}
                /\ Returned("current_player") => ret = "White")
    /\ [][inner' = inner /\ Index' = Index]_vars

\* to_proto answering a snapshot that has a captured piece and a piece
\* without a position, Black to move and an en-passant target
C11_Witness ==
    /\ Returned("to_proto")
    /\ ret = inner
    /\ inner.current_player = 2
    /\ IsSome(inner.en_passant_target)
    /\ \E i \in DOMAIN SnapshotPieces : SnapshotPieces[i].captured
    /\ \E i \in DOMAIN SnapshotPieces :
          ~SnapshotPieces[i].captured /\ Unresolvable(SnapshotPieces[i])

\* current_player answering White on a board without pieces
C11_EmptyBoard ==
    /\ Returned("current_player")
    /\ ret = "White"
    /\ SnapshotPieces = <<>>
    /\ IsSome(inner.board)

-----------------------------------------------------------------------------
(* C12: a piece's position is a valid square *)

\* the piece of the same variant, colour and has_moved made on the corner a1
OnCorner(piece) ==
    [piece EXCEPT !.position = Some(Square_to_proto(Sq(0, 0)))]

\* C12: position() of a piece of any variant, made by new or by from_proto
\* with any external position or none, is a square with file and rank in
\* 0..7; it is the corner (0, 0) when the stored position is missing, and the
\* moves of such a piece are the moves from (0, 0).
C12_PositionValid ==
    /\ Returned("position") =>
          /\ ret \in Squares
          /\ (call.piece.tag # "Rook" /\ call.piece.position = None) =>
                ret = Sq(0, 0)
    /\ (/\ Returned("valid_moves")
        /\ call.piece.tag # "Rook"
        /\ call.piece.position = None) =>
          ret = valid_moves(OnCorner(call.piece))

\* a black queen without a stored position that moves from the corner a1
\* along the first rank
C12_Witness ==
    /\ ValidMovesOf("Queen")
    /\ call.piece.position = None
    /\ call.piece.color = 2
    /\ Sq(7, 0) \in Range(ret)

\* position() asked of a piece whose stored position is beyond the board
C12_OutOfRange ==
    /\ Returned("position")
    /\ call.piece.tag = "Knight"
    /\ call.piece.position = Some(Position(9, 4))
    /\ ret = Sq(0, 0)

-----------------------------------------------------------------------------
(* C13: the geometric predicates *)

\* the movement pattern of each variant, from the square `from` to sq
Pattern(tag, c, has_moved, from, sq) ==
    LET fd == Abs(sq.file - from.file)
        rd == Abs(sq.rank - from.rank)
        d  == PawnDirection(c)
    IN  CASE tag = "King"   -> (IF fd > rd THEN fd ELSE rd) = 1
          [] tag = "Queen"  -> (fd = 0 \/ rd = 0 \/ fd = rd) /\ sq # from
          [] tag = "Rook"   -> (fd = 0 \/ rd = 0) /\ sq # from
          [] tag = "Bishop" -> fd = rd /\ fd # 0
          [] tag = "Knight" -> <<fd, rd>> \in {<<1, 2>>, <<2, 1>>}
          [] tag = "Pawn"   ->
                \/ fd = 0 /\ sq.rank - from.rank = d
                \/ fd = 0 /\ sq.rank - from.rank = 2 * d /\ ~has_moved
                \/ fd = 1 /\ sq.rank - from.rank = d

\* C13: can_move_to holds exactly when: King, Chebyshev distance 1; Queen,
\* same file, same rank or equal absolute deltas, and not the own square;
\* Rook, same file or rank, not the own square; Bishop, equal non-zero
\* absolute deltas; Knight, absolute deltas (1,2) or (2,1); Pawn, same file
\* one step in the colour's direction, or same file two steps while has_moved
\* is false, or one file aside one step forward.  After mark_moved a pawn
\* rejects the two-square target and still accepts the one-square target.
C13_CanMoveTo ==
    Returned("can_move_to") =>
        LET piece == call.piece
            from  == position_of(piece)
            c     == color_of(piece)
        IN  /\ ret = Pattern(piece.tag, c, piece.has_moved, from, call.target)
            /\ (piece.tag = "Pawn" /\ piece.has_moved /\ call.target.file = from.file) =>
                  /\ call.target.rank - from.rank = 2 * PawnDirection(c) => ret = FALSE
                  /\ call.target.rank - from.rank = PawnDirection(c) => ret = TRUE

\* the white pawn of e2 after mark_moved, asked about e4 and answering no
C13_Witness ==
    /\ Returned("can_move_to")
    /\ call.piece = mark_moved(Piece_new("Pawn", "White", Sq(4, 1)))
    /\ call.target = Sq(4, 3)
    /\ ret = FALSE

-----------------------------------------------------------------------------
(* C14: valid_moves against can_move_to *)

\* C14: every square of valid_moves(board), for a piece of any variant on any
\* board, is on the board, satisfies can_move_to (so it is never the piece's
\* own square), holds no piece of the mover's colour, and is in the returned
\* list once.
C14_MovesWithinGeometry ==
    Returned("valid_moves") =>
        /\ \A i \in DOMAIN ret :
              /\ ret[i] \in Squares
              /\ can_move_to(call.piece, ret[i])
              /\ ret[i] # position_of(call.piece)
              /\ ~SameColourAt(ret[i], color_of(call.piece))
        /\ NoDuplicates(ret)

\* a bishop that captures on one diagonal and has a piece of its own colour
\* on a square its geometry reaches
C14_Witness ==
    /\ ValidMovesOf("Bishop")
    /\ \E sq \in Range(ret) : OpponentAt(sq, color_of(call.piece))
    /\ \E sq \in Squares :
          /\ can_move_to(call.piece, sq)
          /\ SameColourAt(sq, color_of(call.piece))
          /\ sq \notin Range(ret)

-----------------------------------------------------------------------------
(* C15: all_pieces is complete *)

\* the places in the snapshot's list of the pieces that are not captured and
\* have a resolvable position
LivePlaces ==
    {i \in DOMAIN SnapshotPieces :
        /\ ~SnapshotPieces[i].captured
        /\ IsSome(piece_square(SnapshotPieces[i]))}

\* every piece of the snapshot that is not captured has a position
AllPositioned ==
    \A i \in DOMAIN SnapshotPieces :
        ~SnapshotPieces[i].captured =>
            /\ IsSome(SnapshotPieces[i].kind)
            /\ IsSome(SnapshotPieces[i].kind[1].position)

\* C15: all_pieces() yields every piece of the snapshot that is not captured
\* and has a resolvable position, each once, also when several of them
\* resolve to one square: it yields as many pieces as there are such pieces,
\* and as many as both colour lists hold together when every piece that is
\* not captured has a position.
C15_AllPiecesComplete ==
    Returned("all_pieces") =>
        /\ \A i \in LivePlaces : SnapshotPieces[i] \in ret
        /\ Cardinality(ret) = Cardinality(LivePlaces)
        /\ AllPositioned =>
              Cardinality(ret) = Len(white_pieces) + Len(black_pieces)

\* all_pieces called on a board whose snapshot has two live pieces on a1
C15_Collision ==
    /\ Returned("all_pieces")
    /\ Cardinality(LivePlaces) = 2
    /\ Cardinality(ret) = 1

-----------------------------------------------------------------------------
(* C16: external coordinates beyond the board *)

\* an external file or rank Square::from_proto is to reject
Beyond(x) == x \notin 0..(MaxCoord + 1)

\* C16: Square::from_proto returns no value for every external position
\* whose file or rank lies outside 0..8, over the whole range of the signed
\* 32-bit fields: negative values, 9..255, and 256 or more; no such position
\* becomes a square of the board.
C16_BeyondRejected ==
    (/\ Returned("Square::from_proto")
     /\ Beyond(call.pos.file) \/ Beyond(call.pos.rank)) =>
        ret = None

\* the external values 9 and -1 are rejected
C16_NearRejected ==
    /\ Returned("Square::from_proto")
    /\ call.pos = Position(MaxCoord + 2, -1)
    /\ ret = None

\* the external file 256 is taken for the file a
C16_Wrapped ==
    /\ Returned("Square::from_proto")
    /\ call.pos = Position(U8Modulus, 1)
    /\ ret = Some(Sq(0, 0))

====
